---- MODULE Spec2Model ----
(***************************************************************************)
(* SetDiskCache (set_cache_disk.py): choice of a local, writable cache     *)
(* directory among an ordered list of preferred volumes, with the home     *)
(* directory as fallback, and export of the choice to NUKE_TEMP_DIR and    *)
(* NUKE_DISK_CACHE.                                                        *)
(*                                                                         *)
(* Strings are sequences of tokens: "x in line" is the contiguous          *)
(* sub-sequence test, os.path.join inserts the separator, lower() maps     *)
(* tokens.  The operating system, the volume table, the mount command's    *)
(* behaviour and the directories present are fixed by Init; the outcome of *)
(* makedirs and of the three steps of the write test are drawn when the    *)
(* code first asks and stay the same afterwards.                           *)
(***************************************************************************)
EXTENDS Integers, Sequences, FiniteSets, TLC

VARIABLES
    current_os,         \* platform.system()
    preferred_volumes,  \* self.preferred_volumes
    cache_dir,          \* self.cache_dir
    cache_path,         \* self.cache_path (None is the empty string)
    environ,            \* os.environ, the two variables the code writes
    mount_table,        \* attached volumes, in the order the OS lists them
    mount_cmd,          \* what running `mount` does
    net_output,         \* text printed by `net use`
    dirs,               \* cache directories that exist
    files,              \* marker files that exist, with their content
    makedirs_ok,        \* per path: does os.makedirs succeed
    probe_mode,         \* per path: how the write test ends
    pc,                 \* position of the run
    idx,                \* index of the candidate under examination
    ret,                \* value returned by _find_suitable_cache_path_*
    checks,             \* checks performed in the current run
    run,                \* number of constructions so far
    before,             \* dirs, files, environ at the start of the run
    prev_path           \* cache_path of the previous run

vars == <<current_os, preferred_volumes, cache_dir, cache_path, environ,
          mount_table, mount_cmd, net_output, dirs, files, makedirs_ok,
          probe_mode, pc, idx, ret, checks, run, before, prev_path>>

facts == <<current_os, preferred_volumes, cache_dir, mount_table, mount_cmd,
           net_output>>

\* ------------------------------------------------------------------ bounds
MaxVols == 2
MaxRuns == 2

\* ------------------------------------------------------------- input sets
Names == {<<"A">>, <<"A", "B">>}
CacheDirs == {<<"NukeCache">>}
FsTypes == {"apfs", "smbfs"}
OSes == {"Darwin", "Linux", "Windows", "FreeBSD"}
MountCmds == {"ok", "nonzero", "nolaunch"}
ProbeModes == {"ok", "open_fail", "write_fail", "remove_fail"}

None == <<>>

SeqsUpTo(S, n) == UNION {[1..k -> S] : k \in 0..n}

\* volume tables: each attached volume listed once, in any order
Tables ==
    {t \in SeqsUpTo(Names \X FsTypes, Cardinality(Names)) :
        \A i, j \in 1..Len(t) : i # j => t[i][1] # t[j][1]}

\* --------------------------------------------------------------- strings
Contains(sub, s) ==
    \E k \in 0..(Len(s) - Len(sub)) : SubSeq(s, k + 1, k + Len(sub)) = sub

LowerTok(c) ==
    CASE c = "A" -> "a"
      [] c = "B" -> "b"
      [] c = "C" -> "c"
      [] c = "Users" -> "users"
      [] OTHER -> c

Lower(s) == [k \in 1..Len(s) |-> LowerTok(s[k])]

Sep(os) == IF os = "Windows" THEN "\\" ELSE "/"

\* os.path.join(a, b), b a relative path
Join(os, a, b) ==
    IF b # <<>> /\ b[1] = Sep(os) THEN b
    ELSE IF a = <<>> \/ a[Len(a)] = Sep(os) THEN a \o b
    ELSE a \o <<Sep(os)>> \o b

\* os.path.expanduser('~')
Home(os) ==
    CASE os = "Darwin" -> <<"/", "Users", "/", "u">>
      [] os = "Windows" -> <<"C", ":", "\\", "Users", "\\", "u">>
      [] OTHER -> <<"/", "home", "/", "u">>

VolumePath(os, volume) ==
    CASE os = "Darwin" -> Join(os, <<"/", "Volumes">>, volume)
      [] os = "Windows" -> volume \o <<":", "\\">>
      [] OTHER -> Join(os, <<"/", "mnt">>, volume)

CachePathOf(os, volume, cd) == Join(os, VolumePath(os, volume), cd)
HomeCachePath(os, cd) == Join(os, Home(os), cd)
AllCachePaths(os, cd) ==
    {CachePathOf(os, v, cd) : v \in Names} \cup {HomeCachePath(os, cd)}

\* one line of `mount` for a table entry
MountLine(os, e) ==
    IF os = "Darwin"
    THEN <<"dev", " ", "on", " ">> \o VolumePath(os, e[1]) \o <<" ", "(", e[2], ")">>
    ELSE <<"dev", " ", "on", " ">> \o VolumePath(os, e[1]) \o <<" ", "type", " ", e[2]>>

\* subprocess.check_output(['mount'], text=True).splitlines()
MountOutput(os, table) == [k \in 1..Len(table) |-> MountLine(os, table[k])]

RECURSIVE NetLines(_, _, _)
NetLines(table, k, lower) ==
    IF k > Len(table) THEN <<>>
    ELSE LET p == VolumePath("Windows", table[k][1])
             l == IF table[k][2] = "smbfs"
                  THEN <<"OK", " ">> \o (IF lower THEN Lower(p) ELSE p) \o <<" ", "srv", "\n">>
                  ELSE <<>>
         IN l \o NetLines(table, k + 1, lower)

\* text of `net use`: one line per network-mapped drive
NetUseOutput(table, lower) == <<"Status", "\n">> \o NetLines(table, 1, lower)

\* os.path.ismount(volume_path) / os.path.isdir(volume_path) of a drive
Accessible(os, table, volume_path) ==
    \E k \in 1..Len(table) : VolumePath(os, table[k][1]) = volume_path

\* ------------------------------------------------------- _is_network_drive
network_filesystems == <<"smbfs", "nfs", "afp", "cifs", "webdav">>

AnyFsTypeIn(line) ==
    \E k \in 1..Len(network_filesystems) : Contains(<<network_filesystems[k]>>, line)

\* the loop over mount_output.splitlines(): the first line holding
\* volume_path decides; no such line gives False
FirstLineDecides(volume_path, lines) ==
    LET hits == {k \in 1..Len(lines) : Contains(volume_path, lines[k])}
    IN IF hits = {} THEN FALSE
       ELSE LET first == CHOOSE k \in hits : \A m \in hits : k <= m
            IN AnyFsTypeIn(lines[first])

\* result of _is_network_drive: raised (an exception other than
\* CalledProcessError leaves the function), error (CalledProcessError was
\* caught and logged), value (the boolean returned)
IsNetworkDrive(os, volume_path, cmd, table, netout) ==
    IF os \in {"Darwin", "Linux"}
    THEN CASE cmd = "nolaunch" -> [raised |-> TRUE, error |-> FALSE, value |-> FALSE]
           [] cmd = "nonzero" -> [raised |-> FALSE, error |-> TRUE, value |-> FALSE]
           [] OTHER -> [raised |-> FALSE, error |-> FALSE,
                        value |-> FirstLineDecides(volume_path, MountOutput(os, table))]
    ELSE IF os = "Windows"
    THEN CASE cmd = "nolaunch" -> [raised |-> TRUE, error |-> FALSE, value |-> FALSE]
           [] cmd = "nonzero" -> [raised |-> FALSE, error |-> TRUE, value |-> FALSE]
           [] OTHER -> [raised |-> FALSE, error |-> FALSE,
                        value |-> Contains(Lower(volume_path), Lower(netout))]
    ELSE [raised |-> FALSE, error |-> FALSE, value |-> FALSE]

\* ------------------------------------------- _ensure_directory, _is_writable
EnsureDirectory_NoExistOk(path, d, mk) ==
    IF path \in d
    THEN [ok |-> FALSE, dirs |-> d, made |-> FALSE]
    ELSE IF mk THEN [ok |-> TRUE, dirs |-> d \cup {path}, made |-> TRUE]
    ELSE [ok |-> FALSE, dirs |-> d, made |-> FALSE]

\* mk: os.makedirs(path, exist_ok=True) succeeds
EnsureDirectory(path, d, mk) ==
    IF path \in d
    THEN [ok |-> TRUE, dirs |-> d, made |-> FALSE]
    ELSE IF mk THEN [ok |-> TRUE, dirs |-> d \cup {path}, made |-> TRUE]
    ELSE [ok |-> FALSE, dirs |-> d, made |-> FALSE]

TestFile(os, path) == Join(os, path, <<".write_test">>)

Without(f, name) == {x \in f : x.path # name}

\* open(test_file, 'w') creates or truncates the file, write and close put
\* the payload, os.remove deletes it; an IOError at any step returns False
IsWritable(os, path, f, mode) ==
    LET test_file == TestFile(os, path)
    IN CASE mode = "open_fail" -> [ok |-> FALSE, files |-> f]
         [] mode = "write_fail" ->
              [ok |-> FALSE,
               files |-> Without(f, test_file) \cup {[path |-> test_file, data |-> ""]}]
         [] mode = "remove_fail" ->
              [ok |-> FALSE,
               files |-> Without(f, test_file) \cup {[path |-> test_file, data |-> "test"]}]
         [] OTHER -> [ok |-> TRUE, files |-> Without(f, test_file)]

\* `_ensure_directory(p) and _is_writable(p)`: the probe runs only when the
\* directory is there
EnsureAndProbe(os, path, d, f, mk, mode) ==
    LET e == EnsureDirectory(path, d, mk)
        w == IsWritable(os, path, f, mode)
    IN [ok |-> e.ok /\ w.ok,
        dirs |-> e.dirs,
        files |-> IF e.ok THEN w.files ELSE f,
        made |-> e.made,
        ensured |-> e.ok,
        called_makedirs |-> path \notin d]

Check(op, i, res) == [op |-> op, idx |-> i, res |-> res]

TryChecks(i, r) ==
    {Check("ensure", i, IF ~r.ensured THEN "failed"
                        ELSE IF r.made THEN "created" ELSE "present")}
    \cup (IF r.ensured
          THEN {Check("writable", i, IF r.ok THEN "yes" ELSE "no")}
          ELSE {})

\* the outcome drawn for a path agrees with what was seen of it before
Agrees(memo, path, v) == memo[path] \in {"unknown", v}

Bool2Str(b) == IF b THEN "yes" ELSE "no"

\* ---------------------------------------------------------------- state
Supported == {"Darwin", "Linux", "Windows"}

NumVols == Len(preferred_volumes)
VolumeAt(i) == preferred_volumes[i]
VolPathAt(i) == VolumePath(current_os, VolumeAt(i))
CachePathAt(i) == CachePathOf(current_os, VolumeAt(i), cache_dir)
HomePath == HomeCachePath(current_os, cache_dir)
PathOfIdx(i) == IF i = 0 THEN HomePath ELSE CachePathAt(i)
Query(i) == IsNetworkDrive(current_os, VolPathAt(i), mount_cmd, mount_table, net_output)

InitialEnviron == [NUKE_TEMP_DIR |-> <<"/", "var", "tmp">>, NUKE_DISK_CACHE |-> None]

Init ==
    /\ current_os \in OSes
    /\ preferred_volumes \in SeqsUpTo(Names, MaxVols)
    /\ cache_dir \in CacheDirs
    /\ mount_table \in Tables
    /\ mount_cmd \in (IF current_os \in {"Darwin", "Linux"} THEN MountCmds ELSE {"ok"})
    /\ net_output \in (IF current_os = "Windows"
                       THEN {NetUseOutput(mount_table, l) : l \in BOOLEAN}
                       ELSE {<<>>})
    /\ dirs \in {d \in SUBSET AllCachePaths(current_os, cache_dir) :
                    \A v \in Names :
                        CachePathOf(current_os, v, cache_dir) \in d
                        => Accessible(current_os, mount_table, VolumePath(current_os, v))}
    /\ files = {}
    /\ makedirs_ok = [p \in AllCachePaths(current_os, cache_dir) |-> "unknown"]
    /\ probe_mode = [p \in AllCachePaths(current_os, cache_dir) |-> "unknown"]
    /\ environ = InitialEnviron
    /\ cache_path = None
    /\ pc = "idle"
    /\ idx = 0
    /\ ret = None
    /\ checks = {}
    /\ run = 0
    /\ before = [dirs |-> dirs, files |-> files, environ |-> environ]
    /\ prev_path = None

\* ------------------------------------------------- __init__ and OS dispatch
\* SetDiskCache(preferred_volumes, cache_dir): cache_path = None, then the
\* branch on platform.system(); an unsupported system only logs a warning
Construct ==
    /\ pc \in {"idle", "done", "raised"}
    /\ run < MaxRuns
    /\ run' = run + 1
    /\ prev_path' = cache_path
    /\ before' = [dirs |-> dirs, files |-> files, environ |-> environ]
    /\ cache_path' = None
    /\ ret' = None
    /\ checks' = {}
    /\ IF current_os \in Supported
       THEN pc' = "scan" /\ idx' = 1
       ELSE pc' = "done" /\ idx' = 0
    /\ UNCHANGED <<facts, environ, dirs, files, makedirs_ok, probe_mode>>

\* ------------------------------------------ _find_suitable_cache_path_<os>
InLoop == pc = "scan" /\ idx \in 1..NumVols

VolumeNotMounted_MakesDir ==
    /\ InLoop
    /\ ~Accessible(current_os, mount_table, VolPathAt(idx))
    /\ checks' = checks \cup {Check("ismount", idx, "no")}
    /\ dirs' = dirs \cup {CachePathAt(idx)}
    /\ idx' = idx + 1
    /\ UNCHANGED <<facts, cache_path, environ, files, makedirs_ok, probe_mode,
                   pc, ret, run, before, prev_path>>

\* `if not os.path.ismount(volume_path): continue` (isdir on Windows)
VolumeNotMounted ==
    /\ InLoop
    /\ ~Accessible(current_os, mount_table, VolPathAt(idx))
    /\ checks' = checks \cup {Check("ismount", idx, "no")}
    /\ idx' = idx + 1
    /\ UNCHANGED <<facts, cache_path, environ, dirs, files, makedirs_ok, probe_mode,
                   pc, ret, run, before, prev_path>>

\* the macOS and Linux loops ask _is_network_drive; the Windows loop does not
AsksNetwork == current_os \in {"Darwin", "Linux"}

\* subprocess.check_output cannot start the command: the OSError is not a
\* CalledProcessError and leaves _is_network_drive, the loop and __init__
NetworkQueryRaises ==
    /\ InLoop
    /\ Accessible(current_os, mount_table, VolPathAt(idx))
    /\ AsksNetwork
    /\ Query(idx).raised
    /\ checks' = checks \cup {Check("ismount", idx, "yes"), Check("network", idx, "raised")}
    /\ pc' = "raised"
    /\ UNCHANGED <<facts, cache_path, environ, dirs, files, makedirs_ok, probe_mode,
                   idx, ret, run, before, prev_path>>

\* `if self._is_network_drive(volume_path): continue`
VolumeIsNetwork ==
    /\ InLoop
    /\ Accessible(current_os, mount_table, VolPathAt(idx))
    /\ AsksNetwork
    /\ ~Query(idx).raised
    /\ Query(idx).value
    /\ checks' = checks \cup {Check("ismount", idx, "yes"), Check("network", idx, "yes")}
    /\ idx' = idx + 1
    /\ UNCHANGED <<facts, cache_path, environ, dirs, files, makedirs_ok, probe_mode,
                   pc, ret, run, before, prev_path>>

PassedChecks(i) ==
    {Check("ismount", i, "yes")}
    \cup (IF AsksNetwork
          THEN {Check("network", i, IF Query(i).error THEN "error" ELSE "no")}
          ELSE {})

\* effect on the filesystem and on what is known of it of
\* `_ensure_directory(path) and _is_writable(path)`
Probe(path, mk, mode, r) ==
    /\ Agrees(makedirs_ok, path, Bool2Str(mk))
    /\ Agrees(probe_mode, path, mode)
    /\ r.called_makedirs \/ mk
    /\ r.ensured \/ mode = "ok"
    /\ dirs' = r.dirs
    /\ files' = r.files
    /\ makedirs_ok' = IF r.called_makedirs
                      THEN [makedirs_ok EXCEPT ![path] = Bool2Str(mk)]
                      ELSE makedirs_ok
    /\ probe_mode' = IF r.ensured
                     THEN [probe_mode EXCEPT ![path] = mode]
                     ELSE probe_mode

TryVolume_NoStop ==
    /\ InLoop
    /\ Accessible(current_os, mount_table, VolPathAt(idx))
    /\ AsksNetwork => (~Query(idx).raised /\ ~Query(idx).value)
    /\ \E mk \in BOOLEAN, mode \in ProbeModes :
         LET path == CachePathAt(idx)
             r == EnsureAndProbe(current_os, path, dirs, files, mk, mode)
         IN /\ Probe(path, mk, mode, r)
            /\ checks' = checks \cup PassedChecks(idx) \cup TryChecks(idx, r)
            /\ ret' = IF r.ok THEN path ELSE ret
            /\ pc' = pc
            /\ idx' = idx + 1
    /\ UNCHANGED <<facts, cache_path, environ, run, before, prev_path>>

\* a mounted volume that is not reported as a network drive:
\* `if self._ensure_directory(cache_path) and self._is_writable(cache_path):
\*      return cache_path`
TryVolume ==
    /\ InLoop
    /\ Accessible(current_os, mount_table, VolPathAt(idx))
    /\ AsksNetwork => (~Query(idx).raised /\ ~Query(idx).value)
    /\ \E mk \in BOOLEAN, mode \in ProbeModes :
         LET path == CachePathAt(idx)
             r == EnsureAndProbe(current_os, path, dirs, files, mk, mode)
         IN /\ Probe(path, mk, mode, r)
            /\ checks' = checks \cup PassedChecks(idx) \cup TryChecks(idx, r)
            /\ IF r.ok
               THEN ret' = path /\ pc' = "ret" /\ idx' = idx
               ELSE ret' = ret /\ pc' = pc /\ idx' = idx + 1
    /\ UNCHANGED <<facts, cache_path, environ, run, before, prev_path>>

\* after the loop: the home directory, else None
HomeFallback ==
    /\ pc = "scan"
    /\ idx > NumVols
    /\ \E mk \in BOOLEAN, mode \in ProbeModes :
         LET r == EnsureAndProbe(current_os, HomePath, dirs, files, mk, mode)
         IN /\ Probe(HomePath, mk, mode, r)
            /\ checks' = checks \cup TryChecks(0, r)
            /\ ret' = IF r.ok THEN HomePath ELSE None
    /\ pc' = "ret"
    /\ UNCHANGED <<facts, cache_path, environ, idx, run, before, prev_path>>

\* --------------------------------------------------- _set_cache_location_<os>
SetCacheLocation_OneVariable ==
    /\ pc = "ret"
    /\ cache_path' = ret
    /\ environ' = IF ret # <<>>
                  THEN [environ EXCEPT !.NUKE_TEMP_DIR = ret]
                  ELSE environ
    /\ pc' = "done"
    /\ UNCHANGED <<facts, dirs, files, makedirs_ok, probe_mode, idx, ret, checks,
                   run, before, prev_path>>

\* self.cache_path = <found>; `if self.cache_path:` both variables are set
SetCacheLocation ==
    /\ pc = "ret"
    /\ cache_path' = ret
    /\ environ' = IF ret # <<>>
                  THEN [NUKE_TEMP_DIR |-> ret, NUKE_DISK_CACHE |-> ret]
                  ELSE environ
    /\ pc' = "done"
    /\ UNCHANGED <<facts, dirs, files, makedirs_ok, probe_mode, idx, ret, checks,
                   run, before, prev_path>>

Next ==
    \/ Construct
    \/ VolumeNotMounted
    \/ NetworkQueryRaises
    \/ VolumeIsNetwork
    \/ TryVolume
    \/ HomeFallback
    \/ SetCacheLocation

Spec == Init /\ [][Next]_vars

\* ------------------------------------------------------------ properties
Ended == pc \in {"done", "raised"}
Tried(i) == \E c \in checks : c.idx = i /\ c.op = "ensure"
Accepted(i) == Check("writable", i, "yes") \in checks
MarkerIn(path) == \E f \in files : f.path = TestFile(current_os, path)

\* what the four checks answer for candidate i, read from the environment:
\* mounted, the network query returns False, the directory is there or can be
\* made, the write test succeeds
PassesAll(i) ==
    /\ Accessible(current_os, mount_table, VolPathAt(i))
    /\ ~Query(i).raised /\ ~Query(i).value
    /\ CachePathAt(i) \in dirs \/ makedirs_ok[CachePathAt(i)] = "yes"
    /\ probe_mode[CachePathAt(i)] = "ok"

FirstPassing(i) == PassesAll(i) /\ \A j \in 1..(i - 1) : ~PassesAll(j)

\* C1: under the macOS and Linux policies, when candidate i is the first one
\* that is mounted, not reported as a network drive, creatable and writable,
\* the run returns join(mount root of i, cache_dir); no check of the run is on
\* a candidate after i, nor on the home directory.
C1_FirstMatchWins ==
    (pc = "done" /\ current_os \in {"Darwin", "Linux"}) =>
        \A i \in 1..NumVols :
            FirstPassing(i) =>
                /\ cache_path = Join(current_os, VolPathAt(i), cache_dir)
                /\ \A c \in checks : c.idx \in 1..i

\* a run that skipped a first candidate, accepted the second, and a run that
\* accepted the first of two mounted local candidates
C1_Witness ==
    /\ pc = "done" /\ current_os \in {"Darwin", "Linux"} /\ NumVols = 2
    /\ VolumeAt(1) # VolumeAt(2)
    /\ \A i \in 1..2 : Accessible(current_os, mount_table, VolPathAt(i))
    /\ FirstPassing(1) /\ cache_path = CachePathAt(1)
    /\ ~Query(2).raised /\ ~Query(2).value

\* the table entry of a volume has a network filesystem type
NetworkEntry(volume) ==
    \E k \in 1..Len(mount_table) :
        /\ mount_table[k][1] = volume
        /\ \E n \in 1..Len(network_filesystems) : mount_table[k][2] = network_filesystems[n]

\* C2: with the mount table read successfully, a mounted preferred volume
\* whose own mount-table entry has a network filesystem type is never the
\* selected cache location.
C2_NetworkNeverSelected ==
    (pc = "done" /\ current_os \in {"Darwin", "Linux"} /\ mount_cmd = "ok") =>
        \A i \in 1..NumVols :
            NetworkEntry(VolumeAt(i)) => cache_path # CachePathAt(i)

\* C3: in every run, on every operating system, the home directory is tried
\* if and only if no preferred volume was accepted.
C3_HomeIffNoneAccepted ==
    Ended => (Tried(0) <=> ~\E i \in 1..NumVols : Accepted(i))

\* C4: after a run, a found path is the value of both environment variables
\* and of cache_path; with no path found both variables are as before the run.
C4_Environment ==
    Ended =>
        /\ cache_path = ret
        /\ cache_path # None =>
              environ.NUKE_TEMP_DIR = cache_path /\ environ.NUKE_DISK_CACHE = cache_path
        /\ cache_path = None => environ = before.environ

\* a run that found a path and wrote a variable that was unset before it
C4_Witness ==
    /\ pc = "done" /\ cache_path # None
    /\ environ.NUKE_DISK_CACHE = cache_path
    /\ before.environ.NUKE_DISK_CACHE = None

\* a run whose home fallback failed too: the variables keep their values
C4_WitnessNotFound ==
    /\ pc = "done" /\ cache_path = None /\ Tried(0)
    /\ environ.NUKE_TEMP_DIR = <<"/", "var", "tmp">>

\* C5: the selection never raises, whatever the external operations do.
C5_NeverRaises == pc # "raised"

\* C6: a second run with the same arguments and unchanged mount facts, after
\* a run that found a path, finds the same path, does not raise, creates no
\* directory and leaves every file as the first run left it, with no marker
\* file in the directory it returns.
C6_Idempotent ==
    (run >= 2 /\ prev_path # None) =>
        /\ pc # "raised"
        /\ dirs = before.dirs
        /\ pc = "done" =>
              /\ cache_path = prev_path
              /\ files = before.files
              /\ ~MarkerIn(cache_path)

\* a second run that finds the directory the first run made
C6_Witness ==
    /\ run = 2 /\ pc = "done" /\ prev_path # None /\ cache_path = prev_path
    /\ Check("ensure", idx, "present") \in checks
    /\ \E p \in DOMAIN makedirs_ok : makedirs_ok[p] = "yes"

\* C7: after the write test of a directory returned, no marker file is in
\* that directory, whether the test succeeded or failed.
C7_NoMarkerAfterProbe ==
    \A c \in checks : c.op = "writable" => ~MarkerIn(PathOfIdx(c.idx))

\* C8: under the Windows policy a preferred volume whose drive path appears,
\* compared case-insensitively, in the `net use` output is never returned.
C8_WindowsNetworkSkipped ==
    (pc = "done" /\ current_os = "Windows") =>
        \A i \in 1..NumVols :
            Query(i).value => cache_path # CachePathAt(i)

\* C9: when the mount command fails for a mounted candidate, the scan goes on
\* to directory creation and the write test of the same candidate, and the
\* candidate is selected when both succeed.
C9_FailOpen ==
    \A i \in 1..NumVols :
        (\E c \in checks : c.idx = i /\ c.op = "network" /\ c.res \in {"error", "raised"}) =>
            /\ pc # "raised"
            /\ Tried(i)
            /\ (pc = "done" /\ Accepted(i)) => cache_path = CachePathAt(i)

====
